---- MODULE Spec2Model ----
(***************************************************************************)
(* A model of the in-memory content store (MemStorage, server/storage.ts)  *)
(* and of the HTTP routes that call it (server/auth.ts): the vote ledger   *)
(* userVotes, the vote counters of memes, comments and resources, the      *)
(* creation operations and their id counters.                              *)
(***************************************************************************)
EXTENDS Integers, FiniteSets, Sequences, Bags, TLC

(***************************************************************************)
(* Bounds of the model.                                                    *)
(***************************************************************************)
\* user ids passed to the vote operations are 1..MaxVoter
MaxVoter == 2
\* createUser is called at most MaxUsers times
MaxUsers == 1
\* createMeme is called at most MaxMemes times
MaxMemes == 1
\* createComment is called at most MaxComments times
MaxComments == 1
\* resource ids passed to voteResource are 0..MaxResourceArg
MaxResourceArg == 1
\* the ledger holds at most MaxLedger records
MaxLedger == 2
\* at most MaxReqs HTTP requests are in flight at once
MaxReqs == 2
\* a listed store holds at most MaxRanked memes
MaxRanked == 3
\* the clock of a listed store reads 0..MaxTick thousand seconds
MaxTick == 2
\* a listing is asked from offset -1..MaxOffset
MaxOffset == 4
\* a listing is asked with limit 0..MaxLimit
MaxLimit == 2
\* each create operation is called at most MaxCreated times when only
\* creations run
MaxCreated == 2
\* a store whose resources are listed holds at most MaxExtra created resources
\* besides the seeded ones
MaxExtra == 1

(***************************************************************************)
(* Program constants.                                                      *)
(***************************************************************************)
\* seedResources() stores three resources
SeedCount == 3
\* getMemes: new Date(createdAt).getTime() / 1000000
HotDivisor == 1000000
\* getMemes(limit: number = 10, ...), parseInt(req.query.limit) || 10
DefaultLimit == 10

Voters == 1..MaxVoter
Directions == {"up", "down"}
\* Map.get on a missing key
undefined == "undefined"
\* throw new Error('Meme not found'), 'Comment not found', 'Resource not found'
NotFound == "not found"

VARIABLES
    users,          \* Map<number, User>
    memes,          \* Map<number, Meme>
    comments,       \* Map<number, Comment>
    gameSessions,   \* Map<number, GameSession>
    resources,      \* Map<number, Resource>
    userVotes,      \* Map<string, 'up' | 'down'>
    userId,         \* next user id
    memeId,         \* next meme id
    commentId,      \* next comment id
    gameSessionId,  \* next game session id
    resourceId,     \* next resource id
    result,         \* how the last storage call ended: it returned or it threw
    inflight,       \* the HTTP requests being served: a bag of requests
    resp,           \* the status of the last HTTP response sent
    script,         \* a caller casting two votes in a row: where it stands
    listing,        \* the last listing call: its arguments and what it returned
    sessions,       \* the sessions issued, by session id: whose, and whether
                    \* the session still holds the login
    tokens,         \* the payloads of the tokens generateToken has signed
    newsletterSubscribers   \* Set<string>

counters == <<userId, memeId, commentId, gameSessionId, resourceId>>
entities == <<users, memes, comments, gameSessions, resources>>
storage == <<entities, userVotes, counters>>
http == <<inflight, resp>>
site == <<sessions, tokens, newsletterSubscribers>>
client == <<script, listing, site>>
vars == <<storage, result, http, client>>

\* a Map as a function: set(k, v)
MapSet(map, k, v) ==
    IF k \in DOMAIN map THEN [map EXCEPT ![k] = v] ELSE map @@ (k :> v)
\* delete(k)
MapDelete(map, k) == [x \in DOMAIN map \ {k} |-> map[x]]
\* get(k)
MapGet(map, k) == IF k \in DOMAIN map THEN map[k] ELSE undefined
EmptyMap == [x \in {} |-> undefined]

\* a key that leaves the user out
voteKeyNoUser(kind, id, uid) == <<kind, id, "user", 0>>

\* the template strings `meme:${id}:user:${userId}`, `comment:...`, `resource:...`:
\* the pieces of the string, in order
voteKey(kind, id, uid) == <<kind, id, "user", uid>>

\* the caller of two votes in a row has not started
Idle == [pc |-> "idle"]
\* no listing has been asked for
NoListing == [op |-> "none"]

(***************************************************************************)
(* The constructor and seedResources.                                      *)
(***************************************************************************)
seedResources ==
    [id \in 1..SeedCount |->
        [id |-> id,
         category |-> CASE id = 1 -> "contracts"
                        [] id = 2 -> "pricing"
                        [] OTHER -> "communication",
         votes |-> 0]]

\* no visitor has logged in or subscribed yet
NoVisitors ==
    /\ sessions = <<>>
    /\ tokens = {}
    /\ newsletterSubscribers = {}

Init ==
    /\ users = EmptyMap
    /\ memes = EmptyMap
    /\ comments = EmptyMap
    /\ gameSessions = EmptyMap
    /\ resources = seedResources
    /\ userVotes = EmptyMap
    /\ userId = 1
    /\ memeId = 1
    /\ commentId = 1
    /\ gameSessionId = 1
    /\ resourceId = SeedCount + 1
    /\ result = "none"
    /\ inflight = EmptyBag
    /\ resp = 0
    /\ script = Idle
    /\ listing = NoListing
    /\ NoVisitors

(***************************************************************************)
(* Creation.                                                               *)
(***************************************************************************)
\* null, and what || null makes of a missing, null or empty value
null == <<>>
orNull(v) == IF Len(v) = 0 THEN null ELSE v

\* bcrypt: the hash of a password, and whether a password matches a hash
hash(password) == <<"bcrypt", password>>
bcryptCompare(password, hashed) == hashed = hash(password)

createUser(insertUser) ==
    /\ users' = MapSet(users, userId,
                       [id |-> userId, email |-> insertUser.email,
                        username |-> insertUser.username,
                        password |-> orNull(insertUser.password)])
    /\ userId' = userId + 1
    /\ result' = "ok"
    /\ UNCHANGED <<memes, comments, gameSessions, resources, userVotes,
                   memeId, commentId, gameSessionId, resourceId>>

\* { ...insert, k: v, ... }: the named fields over those of the input
Spread(insert, named) == named @@ insert

\* createMeme with the input's fields written over the ones it sets
createMemeInputWins(insertMeme, now) ==
    /\ memes' = MapSet(memes, memeId,
                       Spread([id |-> memeId, upvotes |-> 0, downvotes |-> 0,
                               createdAt |-> now], insertMeme))
    /\ memeId' = memeId + 1
    /\ result' = "ok"
    /\ UNCHANGED <<users, comments, gameSessions, resources, userVotes,
                   userId, commentId, gameSessionId, resourceId>>

\* now is what new Date() reads, in milliseconds
createMeme(insertMeme, now) ==
    /\ memes' = MapSet(memes, memeId,
                       Spread(insertMeme,
                              [id |-> memeId, upvotes |-> 0, downvotes |-> 0,
                               createdAt |-> now]))
    /\ memeId' = memeId + 1
    /\ result' = "ok"
    /\ UNCHANGED <<users, comments, gameSessions, resources, userVotes,
                   userId, commentId, gameSessionId, resourceId>>

createComment(insertComment) ==
    /\ comments' = MapSet(comments, commentId,
                          Spread(insertComment, [id |-> commentId, upvotes |-> 0]))
    /\ commentId' = commentId + 1
    /\ result' = "ok"
    /\ UNCHANGED <<users, memes, gameSessions, resources, userVotes,
                   userId, memeId, gameSessionId, resourceId>>

\* createResource with the input's fields written over the ones it sets
createResourceInputWins(insertResource) ==
    /\ resources' = MapSet(resources, resourceId,
                           Spread([id |-> resourceId, votes |-> 0], insertResource))
    /\ resourceId' = resourceId + 1
    /\ result' = "ok"
    /\ UNCHANGED <<users, memes, comments, gameSessions, userVotes,
                   userId, memeId, commentId, gameSessionId>>

createResource(insertResource) ==
    /\ resources' = MapSet(resources, resourceId,
                           Spread(insertResource, [id |-> resourceId, votes |-> 0]))
    /\ resourceId' = resourceId + 1
    /\ result' = "ok"
    /\ UNCHANGED <<users, memes, comments, gameSessions, userVotes,
                   userId, memeId, commentId, gameSessionId>>

createGameSession(insertSession, now) ==
    /\ gameSessions' = MapSet(gameSessions, gameSessionId,
                              Spread(insertSession,
                                     [id |-> gameSessionId, createdAt |-> now]))
    /\ gameSessionId' = gameSessionId + 1
    /\ result' = "ok"
    /\ UNCHANGED <<users, memes, comments, resources, userVotes,
                   userId, memeId, commentId, resourceId>>

(***************************************************************************)
(* Votes.                                                                  *)
(***************************************************************************)
\* memeCounted without "Remove existing vote" for a down vote: a switch from
\* down to up leaves downvotes as it was
memeCountedKeepsDown(meme, existingVote, vote) ==
    LET removed == [meme EXCEPT
                      !.upvotes = IF existingVote = "up" THEN @ - 1 ELSE @]
    IN  IF existingVote # vote
        THEN [removed EXCEPT
                !.upvotes = IF vote = "up" THEN @ + 1 ELSE @,
                !.downvotes = IF vote = "down" THEN @ + 1 ELSE @]
        ELSE removed

\* memeCounted without "Remove existing vote" for an up vote: a switch from
\* up to down leaves upvotes as it was
memeCountedKeepsUp(meme, existingVote, vote) ==
    LET removed == [meme EXCEPT
                      !.downvotes = IF existingVote = "down" THEN @ - 1 ELSE @]
    IN  IF existingVote # vote
        THEN [removed EXCEPT
                !.upvotes = IF vote = "up" THEN @ + 1 ELSE @,
                !.downvotes = IF vote = "down" THEN @ + 1 ELSE @]
        ELSE removed

\* memeCounted that removes the existing vote only when the vote differs: a
\* repeated vote leaves the counters as they were
memeCountedNoToggleOff(meme, existingVote, vote) ==
    IF existingVote # vote
    THEN [meme EXCEPT
            !.upvotes = (IF existingVote = "up" THEN @ - 1 ELSE @)
                            + (IF vote = "up" THEN 1 ELSE 0),
            !.downvotes = (IF existingVote = "down" THEN @ - 1 ELSE @)
                            + (IF vote = "down" THEN 1 ELSE 0)]
    ELSE meme

\* voteMeme, "Remove existing vote" and "Apply new vote if it's different":
\* the counters of the meme after the call
memeCounted(meme, existingVote, vote) ==
    LET removed == [meme EXCEPT
                      !.upvotes = IF existingVote = "up" THEN @ - 1 ELSE @,
                      !.downvotes = IF existingVote = "down" THEN @ - 1 ELSE @]
    IN  IF existingVote # vote
        THEN [removed EXCEPT
                !.upvotes = IF vote = "up" THEN @ + 1 ELSE @,
                !.downvotes = IF vote = "down" THEN @ + 1 ELSE @]
        ELSE removed

\* memeRecorded without the toggle: a repeated vote keeps the record
memeRecordedNoToggle(key, existingVote, vote) ==
    MapSet(userVotes, key, vote)

\* voteMeme: the ledger after the call
memeRecorded(key, existingVote, vote) ==
    IF existingVote # vote
    THEN MapSet(userVotes, key, vote)
    ELSE MapDelete(userVotes, key)

\* voteMeme that writes the ledger before it looks the meme up
voteMemeRecordsFirst(id, uid, vote) ==
    LET key == voteKey("meme", id, uid)
        existingVote == MapGet(userVotes, key)
    IN  IF id \notin DOMAIN memes
        THEN /\ userVotes' = memeRecorded(key, existingVote, vote)
             /\ result' = NotFound
             /\ UNCHANGED <<entities, counters>>
        ELSE /\ memes' = MapSet(memes, id, memeCounted(memes[id], existingVote, vote))
             /\ userVotes' = memeRecorded(key, existingVote, vote)
             /\ result' = "ok"
             /\ UNCHANGED <<users, comments, gameSessions, resources, counters>>

\* voteMeme that suspends between the ledger and the counters: the step ends
\* with the ledger written and the counters not yet
voteMemeTorn(id, uid, vote) ==
    IF id \notin DOMAIN memes
    THEN /\ result' = NotFound
         /\ UNCHANGED storage
    ELSE LET key == voteKey("meme", id, uid)
             existingVote == MapGet(userVotes, key)
         IN  /\ userVotes' = memeRecorded(key, existingVote, vote)
             /\ result' = "ok"
             /\ UNCHANGED <<entities, counters>>

\* voteMeme that stores the meme under the user's id: this.memes.set(userId, meme)
voteMemeStoredUnderUser(id, uid, vote) ==
    IF id \notin DOMAIN memes
    THEN /\ result' = NotFound
         /\ UNCHANGED storage
    ELSE LET key == voteKey("meme", id, uid)
             existingVote == MapGet(userVotes, key)
             counted == memeCounted(memes[id], existingVote, vote)
         IN  /\ UNCHANGED <<users, comments, gameSessions, resources, counters>>
             /\ result' = "ok"
             /\ memes' = MapSet(MapSet(memes, id, counted), uid, counted)
             /\ userVotes' = memeRecorded(key, existingVote, vote)

voteMeme(id, uid, vote) ==
    IF id \notin DOMAIN memes
    THEN /\ result' = NotFound
         /\ UNCHANGED storage
    ELSE LET key == voteKey("meme", id, uid)
             existingVote == MapGet(userVotes, key)
         IN  /\ UNCHANGED <<users, comments, gameSessions, resources, counters>>
             /\ result' = "ok"
             /\ memes' = MapSet(memes, id, memeCounted(memes[id], existingVote, vote))
             /\ userVotes' = memeRecorded(key, existingVote, vote)

\* voteComment, "Toggle vote": the counter of the comment after the call
commentCounted(comment, existingVote, vote) ==
    IF existingVote = vote
    THEN [comment EXCEPT !.upvotes = @ - 1]
    ELSE [comment EXCEPT !.upvotes = @ + 1]

\* voteComment: the ledger after the call
commentRecorded(key, existingVote, vote) ==
    IF existingVote = vote
    THEN MapDelete(userVotes, key)
    ELSE MapSet(userVotes, key, vote)

voteComment(id, uid, vote) ==
    IF id \notin DOMAIN comments
    THEN /\ result' = NotFound
         /\ UNCHANGED storage
    ELSE LET key == voteKey("comment", id, uid)
             existingVote == MapGet(userVotes, key)
         IN  /\ UNCHANGED <<users, memes, gameSessions, resources, counters>>
             /\ result' = "ok"
             /\ comments' = MapSet(comments, id,
                                   commentCounted(comments[id], existingVote, vote))
             /\ userVotes' = commentRecorded(key, existingVote, vote)

\* resourceCounted whose "Change vote" moves the counter by one
resourceCountedSwitchByOne(resource, existingVote, vote) ==
    IF existingVote = vote
    THEN [resource EXCEPT !.votes = @ + (IF vote = "up" THEN -1 ELSE 1)]
    ELSE [resource EXCEPT !.votes = @ + (IF vote = "up" THEN 1 ELSE -1)]

\* voteResource, "Toggle vote" / "Change vote" / "New vote": the signed counter
\* of the resource after the call
resourceCounted(resource, existingVote, vote) ==
    IF existingVote = vote
    THEN [resource EXCEPT !.votes = @ + (IF vote = "up" THEN -1 ELSE 1)]
    ELSE IF existingVote # undefined
    THEN [resource EXCEPT !.votes = @ + (IF vote = "up" THEN 2 ELSE -2)]
    ELSE [resource EXCEPT !.votes = @ + (IF vote = "up" THEN 1 ELSE -1)]

\* resourceRecorded without the toggle: a repeated vote keeps the record
resourceRecordedNoToggle(key, existingVote, vote) ==
    MapSet(userVotes, key, vote)

\* voteResource: the ledger after the call
resourceRecorded(key, existingVote, vote) ==
    IF existingVote = vote
    THEN MapDelete(userVotes, key)
    ELSE MapSet(userVotes, key, vote)

voteResource(id, uid, vote) ==
    IF id \notin DOMAIN resources
    THEN /\ result' = NotFound
         /\ UNCHANGED storage
    ELSE LET key == voteKey("resource", id, uid)
             existingVote == MapGet(userVotes, key)
         IN  /\ UNCHANGED <<users, memes, comments, gameSessions, counters>>
             /\ result' = "ok"
             /\ resources' = MapSet(resources, id,
                                    resourceCounted(resources[id], existingVote, vote))
             /\ userVotes' = resourceRecorded(key, existingVote, vote)

(***************************************************************************)
(* The store called directly: any operation, with any arguments of its     *)
(* declared type.                                                          *)
(***************************************************************************)
LedgerBounded == Cardinality(DOMAIN userVotes') <= MaxLedger

\* the n-th person to register
Person(n) ==
    CASE n = 1 -> [email |-> "ann@x.io", username |-> "ann", password |-> hash("Ann12345")]
      [] n = 2 -> [email |-> "bob@x.io", username |-> "bob", password |-> hash("Bob12345")]
      [] OTHER -> [email |-> "cat@x.io", username |-> "cat", password |-> hash("Cat12345")]

\* the user createUser stores for the n-th person
Registered(n) ==
    [id |-> n, email |-> Person(n).email, username |-> Person(n).username,
     password |-> Person(n).password]

CreateUser ==
    /\ userId <= MaxUsers
    /\ \E insertUser \in {Person(userId)} : createUser(insertUser)

CreateMeme ==
    /\ memeId <= MaxMemes
    /\ \E authorId \in {1}, now \in {0} : createMeme([authorId |-> authorId], now)

CreateComment ==
    /\ commentId <= MaxComments
    /\ \E forMeme \in {1}, authorId \in {1} :
          createComment([memeId |-> forMeme, authorId |-> authorId])

VoteMeme ==
    \E id \in 0..MaxMemes, uid \in Voters, vote \in Directions :
        voteMeme(id, uid, vote) /\ LedgerBounded

VoteComment ==
    \E id \in 0..MaxComments, uid \in Voters :
        voteComment(id, uid, "up") /\ LedgerBounded

VoteResource ==
    \E id \in 0..MaxResourceArg, uid \in Voters, vote \in Directions :
        voteResource(id, uid, vote) /\ LedgerBounded

Next ==
    \/ CreateUser /\ UNCHANGED <<http, client>>
    \/ CreateMeme /\ UNCHANGED <<http, client>>
    \/ CreateComment /\ UNCHANGED <<http, client>>
    \/ VoteMeme /\ UNCHANGED <<http, client>>
    \/ VoteComment /\ UNCHANGED <<http, client>>
    \/ VoteResource /\ UNCHANGED <<http, client>>

Spec == Init /\ [][Next]_vars

(***************************************************************************)
(* The vote routes and the middleware in front of them.  A handler runs    *)
(* without interruption up to its first await: the call of the storage     *)
(* method, whose body holds no await, is part of that step; the response   *)
(* is sent in a later step.  In these definitions `others` is the bag of   *)
(* the requests in flight other than the one being served.                 *)
(***************************************************************************)
\* a request waiting for storage.getUser(decoded.id) to settle; user is what
\* the call found (0: undefined)
waiting(route, id, user, vote) ==
    [pc |-> "getUser", route |-> route, id |-> id, user |-> user, vote |-> vote,
     status |-> 0]

\* a request whose handler awaits the promise of the storage call
awaiting(route, status) ==
    [pc |-> "awaiting", route |-> route, id |-> 0, user |-> 0, vote |-> "-",
     status |-> status]

\* the handler has called the storage method: it will send 200 with what the
\* method returned, or 500 from its catch block
afterCall(others, route) ==
    /\ inflight' = others (+) SetToBag({awaiting(route, IF result' = "ok" THEN 200 ELSE 500)})
    /\ UNCHANGED resp

\* return res.status(...).json(...)
send(others, status) ==
    /\ resp' = status
    /\ inflight' = others

\* the first registration without the return in front of res.status(400): the
\* handler goes on to the storage call
memeVoteRouteNoReturn(others, id, uid, vote) ==
    voteMeme(id, uid, vote) /\ afterCall(others, "memeVote")

\* POST /api/memes/:id/vote: the first of the two registrations.  It answers
\* on every path and never calls next(), so the second one never runs.
memeVoteRoute(others, id, uid, vote) ==
    IF vote # "up" /\ vote # "down"
    THEN send(others, 400) /\ UNCHANGED <<storage, result>>
    ELSE voteMeme(id, uid, vote) /\ afterCall(others, "memeVote")

\* the comment route passing the body's vote on to the store
commentVoteRouteFromBody(others, id, uid, vote) ==
    voteComment(id, uid, vote) /\ afterCall(others, "commentVote")

\* POST /api/comments/:id/vote: the body is not read
commentVoteRoute(others, id, uid, vote) ==
    voteComment(id, uid, "up") /\ afterCall(others, "commentVote")

\* POST /api/resources/:id/vote
resourceVoteRoute(others, id, uid, vote) ==
    IF vote \notin {"up", "down"}
    THEN send(others, 400) /\ UNCHANGED <<storage, result>>
    ELSE voteResource(id, uid, vote) /\ afterCall(others, "resourceVote")

\* next(): the route's handler
handler(others, route, id, uid, vote) ==
    CASE route = "memeVote" -> memeVoteRoute(others, id, uid, vote)
      [] route = "commentVote" -> commentVoteRoute(others, id, uid, vote)
      [] route = "resourceVote" -> resourceVoteRoute(others, id, uid, vote)

\* isAuthenticated.  cred is what the request carries: a session naming user
\* cred.id, a Bearer token signed for user cred.id (0: a token that does not
\* verify), or nothing.
isAuthenticated(route, id, cred, vote) ==
    IF cred.via = "session" /\ cred.id \in DOMAIN users
    THEN handler(inflight, route, id, cred.id, vote)
    ELSE IF cred.via = "bearer" /\ cred.id # 0
    THEN /\ inflight' = inflight (+) SetToBag({
                waiting(route, id, IF cred.id \in DOMAIN users THEN cred.id ELSE 0, vote)})
         /\ UNCHANGED <<storage, result, resp>>
    ELSE send(inflight, 401) /\ UNCHANGED <<storage, result>>

\* a callback that calls next() whatever getUser found
getUserThenNoCheck(req) ==
    /\ BagIn(req, inflight)
    /\ req.pc = "getUser"
    /\ handler(inflight (-) SetToBag({req}), req.route, req.id, req.user, req.vote)

\* storage.getUser(decoded.id).then(user => ...)
getUserThen(req) ==
    /\ BagIn(req, inflight)
    /\ req.pc = "getUser"
    /\ LET others == inflight (-) SetToBag({req})
       IN  IF req.user # 0
           THEN handler(others, req.route, req.id, req.user, req.vote)
           ELSE send(others, 401) /\ UNCHANGED <<storage, result>>

\* res.json(...) once the awaited call has settled
respond(req) ==
    /\ BagIn(req, inflight)
    /\ req.pc = "awaiting"
    /\ send(inflight (-) SetToBag({req}), req.status)
    /\ UNCHANGED <<storage, result>>

(***************************************************************************)
(* The server under requests: a store that holds two users, a meme, a      *)
(* comment and a game session (createUser twice, createMeme,               *)
(* createComment, createGameSession), and vote requests arriving while     *)
(* others are being served.                                                *)
(***************************************************************************)
Routes == {"memeVote", "commentVote", "resourceVote"}
HttpIds == {1}
BodyVotes == {"up", "down", "sideways"}
Credentials ==
    {[via |-> "none", id |-> 0]}
        \cup [via : {"session"}, id : 1..2] \cup [via : {"bearer"}, id : 0..3]

Populated ==
    /\ users = [n \in 1..2 |->
                  Registered(n)]
    /\ memes = [n \in 1..1 |-> [id |-> n, authorId |-> 1, upvotes |-> 0, downvotes |-> 0,
                                createdAt |-> 0]]
    /\ comments = [n \in 1..1 |-> [id |-> n, memeId |-> 1, authorId |-> 1, upvotes |-> 0]]
    /\ gameSessions = [n \in 1..1 |-> [id |-> n, userId |-> 1, createdAt |-> 0]]
    /\ resources = seedResources
    /\ userVotes = EmptyMap
    /\ userId = 3
    /\ memeId = 2
    /\ commentId = 2
    /\ gameSessionId = 2
    /\ resourceId = SeedCount + 1
    /\ result = "ok"

InitHttp ==
    /\ Populated
    /\ inflight = EmptyBag
    /\ resp = 0
    /\ script = Idle
    /\ listing = NoListing
    /\ NoVisitors

Arrive ==
    \E route \in Routes, id \in HttpIds, cred \in Credentials, vote \in BodyVotes :
        /\ BagCardinality(inflight) < MaxReqs
        /\ isAuthenticated(route, id, cred, vote)
        /\ LedgerBounded

GetUserThen == \E req \in BagToSet(inflight) : getUserThen(req) /\ LedgerBounded

Respond == \E req \in BagToSet(inflight) : respond(req)

NextHttp ==
    \/ Arrive /\ UNCHANGED client
    \/ GetUserThen /\ UNCHANGED client
    \/ Respond /\ UNCHANGED client

SpecHttp == InitHttp /\ [][NextHttp]_vars

(***************************************************************************)
(* What the design says of a vote, stated from the ledger alone.           *)
(***************************************************************************)
Kinds == {"meme", "comment", "resource"}
\* the directions a subject kind accepts
Legal(kind) == IF kind = "comment" THEN {"up"} ELSE Directions
\* the records of the ledger on one subject that hold direction d
RecordsOn(kind, id, d) ==
    {k \in DOMAIN userVotes : k[1] = kind /\ k[2] = id /\ userVotes[k] = d}
Ups(kind, id) == Cardinality(RecordsOn(kind, id, "up"))
Downs(kind, id) == Cardinality(RecordsOn(kind, id, "down"))
\* the stored entities of a kind
Stored(kind) ==
    CASE kind = "meme" -> memes
      [] kind = "comment" -> comments
      [] kind = "resource" -> resources
\* the ids a call may name: the stored ones, and one that is not stored
Args(kind) ==
    CASE kind = "meme" -> 0..MaxMemes
      [] kind = "comment" -> 0..MaxComments
      [] kind = "resource" -> 0..MaxResourceArg
\* the step is the call of the vote operation of the kind
VoteCall(kind, id, uid, d) ==
    CASE kind = "meme" -> voteMeme(id, uid, d)
      [] kind = "comment" -> voteComment(id, uid, d)
      [] kind = "resource" -> voteResource(id, uid, d)
\* the record of user uid on the subject, before the step
Prior(kind, id, uid) == MapGet(userVotes, <<kind, id, "user", uid>>)
\* where a vote of direction d takes a record that held `prior`
Dest(prior, d) == IF prior = d THEN undefined ELSE d
\* up = +1, down = -1, none = 0
Signed(d) == CASE d = "up" -> 1 [] d = "down" -> -1 [] OTHER -> 0

\* C1: every subject's stored counters are the tally of the ledger's records on
\* it: a meme's upvotes (downvotes) is the number of up (down) records, a
\* comment's upvotes the number of its records, a resource's votes the up
\* records minus the down records; every record is on a stored subject, and no
\* two records share kind, subject and user.
C1_CountersTallyLedger ==
    /\ \A id \in DOMAIN memes :
          /\ memes[id].upvotes = Ups("meme", id)
          /\ memes[id].downvotes = Downs("meme", id)
    /\ \A id \in DOMAIN comments :
          comments[id].upvotes = Ups("comment", id) + Downs("comment", id)
    /\ \A id \in DOMAIN resources :
          resources[id].votes = Ups("resource", id) - Downs("resource", id)
    /\ \A k \in DOMAIN userVotes :
          /\ k[1] \in Kinds
          /\ k[2] \in DOMAIN Stored(k[1])
          /\ userVotes[k] \in Directions
    /\ \A k1, k2 \in DOMAIN userVotes :
          (k1[1] = k2[1] /\ k1[2] = k2[2] /\ k1[4] = k2[4]) => k1 = k2

\* two users hold opposite records on one meme
C1_Witness ==
    /\ \E id \in DOMAIN memes : memes[id].upvotes = 1 /\ memes[id].downvotes = 1
    /\ Cardinality(DOMAIN userVotes) = 2

\* C2: a vote of direction d by user u on a stored subject leaves the ledger as
\* it was but for the record of (subject, u): no record becomes d, a record
\* equal to d is deleted, a record that differs from d becomes d.
C2_LedgerTransition ==
    [][\A kind \in Kinds : \A id \in Args(kind) \cap DOMAIN Stored(kind), uid \in Voters, d \in Legal(kind) :
          VoteCall(kind, id, uid, d) =>
              LET key == <<kind, id, "user", uid>>
                  prior == Prior(kind, id, uid)
              IN  userVotes' =
                      IF prior = undefined THEN MapSet(userVotes, key, d)
                      ELSE IF prior = d THEN MapDelete(userVotes, key)
                      ELSE MapSet(userVotes, key, d)]_vars

\* a record that holds down while another user's holds up: votes have been cast
C2_Witness ==
    /\ result = "ok"
    /\ \E k1, k2 \in DOMAIN userVotes : userVotes[k1] = "down" /\ userVotes[k2] = "up"

\* the change of (upvotes, downvotes) the design gives for each transition
MemeDelta(from, to) ==
    CASE from = undefined /\ to = "up" -> <<1, 0>>
      [] from = undefined /\ to = "down" -> <<0, 1>>
      [] from = "up" /\ to = undefined -> <<-1, 0>>
      [] from = "down" /\ to = undefined -> <<0, -1>>
      [] from = "up" /\ to = "down" -> <<-1, 1>>
      [] from = "down" /\ to = "up" -> <<1, -1>>

\* C3: a vote on a meme changes (upvotes, downvotes) by the delta of its
\* transition and nothing else of the meme.
C3_MemeDelta ==
    [][\A id \in DOMAIN memes, uid \in Voters, d \in Directions :
          voteMeme(id, uid, d) =>
              LET prior == Prior("meme", id, uid)
                  delta == MemeDelta(prior, Dest(prior, d))
              IN  memes'[id] = [memes[id] EXCEPT !.upvotes = @ + delta[1],
                                                 !.downvotes = @ + delta[2]]]_vars

\* the end of the scenario: user 1 up, up again, down, then user 2 up
C3_Witness ==
    /\ 1 \in DOMAIN memes
    /\ memes[1].upvotes = 1 /\ memes[1].downvotes = 1
    /\ Prior("meme", 1, 1) = "down"
    /\ Prior("meme", 1, 2) = "up"

\* C4: a vote on a resource changes votes by the signed value of the
\* destination minus the signed value of the origin.
C4_ResourceDelta ==
    [][\A id \in DOMAIN resources, uid \in Voters, d \in Directions :
          voteResource(id, uid, d) =>
              LET prior == Prior("resource", id, uid)
              IN  resources'[id] = [resources[id] EXCEPT
                      !.votes = @ + Signed(Dest(prior, d)) - Signed(prior)]]_vars

\* user 1's record on resource 1 is down and the counter stands at -1, as
\* after the scenario's second vote
C4_Witness ==
    /\ resources[1].votes = -1
    /\ Prior("resource", 1, 1) = "down"
    /\ result = "ok"

\* C6: a vote on an id that is not stored throws "... not found" and leaves the
\* ledger, every entity and the id counters as they were.
C6_NotFound ==
    [][\A kind \in Kinds : \A id \in Args(kind) \ DOMAIN Stored(kind),
                              uid \in Voters, d \in Legal(kind) :
          VoteCall(kind, id, uid, d) =>
              /\ result' = "not found"
              /\ UNCHANGED storage]_vars

\* a vote has failed on a store that holds a meme and a ledger record
C6_Witness ==
    /\ result = "not found"
    /\ memes # EmptyMap
    /\ userVotes # EmptyMap

\* C8: a vote by a user id that is not stored fails with a not-found error and
\* changes nothing.
C8_UnknownUserRejected ==
    [][\A kind \in Kinds : \A id \in Args(kind) \cap DOMAIN Stored(kind), uid \in Voters \ DOMAIN users,
                              d \in Legal(kind) :
          VoteCall(kind, id, uid, d) =>
              /\ result' # "ok"
              /\ UNCHANGED storage]_vars

\* C10: a vote that succeeds changes the counters of the subject it names and of
\* no other entity, no ledger record but the one of (kind, subject, user), and
\* no user, game session or id counter.
C10_Frame ==
    [][\A kind \in Kinds : \A id \in Args(kind) \cap DOMAIN Stored(kind), uid \in Voters, d \in Legal(kind) :
          VoteCall(kind, id, uid, d) =>
              LET key == <<kind, id, "user", uid>>
                  others(before, after) ==
                      /\ DOMAIN after = DOMAIN before
                      /\ \A x \in DOMAIN before : after[x] = before[x]
                  butOne(before, after) ==
                      /\ DOMAIN after = DOMAIN before
                      /\ \A x \in DOMAIN before \ {id} : after[x] = before[x]
                      /\ after[id] # before[id]
              IN  /\ IF kind = "meme" THEN butOne(memes, memes')
                                      ELSE others(memes, memes')
                  /\ IF kind = "comment" THEN butOne(comments, comments')
                                         ELSE others(comments, comments')
                  /\ IF kind = "resource" THEN butOne(resources, resources')
                                          ELSE others(resources, resources')
                  /\ \A k \in (DOMAIN userVotes \cup DOMAIN userVotes') \ {key} :
                        MapGet(userVotes', k) = MapGet(userVotes, k)
                  /\ UNCHANGED <<users, gameSessions, counters>>]_vars

\* a vote has succeeded on a store that holds a user and votes on two subjects
C10_Witness ==
    /\ result = "ok"
    /\ users # EmptyMap
    /\ \E k1, k2 \in DOMAIN userVotes : k1[1] = "meme" /\ k2[1] = "resource"

(***************************************************************************)
(* The same, of the requests.                                              *)
(***************************************************************************)
\* the step runs the handler of a request of stored user uid: at once for a
\* request with a session, after getUser has settled for one with a token
Served(route, id, uid, vote) ==
    \/ handler(inflight, route, id, uid, vote)
    \/ /\ BagIn(waiting(route, id, uid, vote), inflight)
       /\ handler(inflight (-) SetToBag({waiting(route, id, uid, vote)}),
                  route, id, uid, vote)
\* the directions a route accepts
LegalFor(route) == IF route = "commentVote" THEN {"up"} ELSE Directions

\* C5: every step that changes a comment or a ledger record on a comment is
\* one of two transitions of one user's record on one comment, whatever the
\* body of the request says: the up record is created and upvotes goes up by
\* 1, or the up record is deleted and upvotes goes down by 1; no record on a
\* comment ever holds anything but up.
C5_CommentToggle ==
    /\ [](\A k \in DOMAIN userVotes : k[1] = "comment" => userVotes[k] = "up")
    /\ [][(\/ comments' # comments
           \/ \E k \in DOMAIN userVotes \cup DOMAIN userVotes' :
                 k[1] = "comment" /\ MapGet(userVotes', k) # MapGet(userVotes, k)) =>
            \E id \in DOMAIN comments, uid \in DOMAIN users :
                LET key == <<"comment", id, "user", uid>>
                    prior == Prior("comment", id, uid)
                IN  /\ \/ /\ prior = undefined
                          /\ comments' = MapSet(comments, id,
                                 [comments[id] EXCEPT !.upvotes = @ + 1])
                          /\ userVotes' = MapSet(userVotes, key, "up")
                       \/ /\ prior = "up"
                          /\ comments' = MapSet(comments, id,
                                 [comments[id] EXCEPT !.upvotes = @ - 1])
                          /\ userVotes' = MapDelete(userVotes, key)]_vars

\* both users hold an up record on comment 1 and a response has been sent
C5_Witness ==
    /\ comments[1].upvotes = 2
    /\ Prior("comment", 1, 1) = "up" /\ Prior("comment", 1, 2) = "up"
    /\ resp = 200

\* C7: a request whose direction the subject kind does not accept is answered
\* 400 and changes nothing in the store.
C7_IllegalDirectionRejected ==
    [][\A route \in Routes : \A id \in HttpIds, uid \in DOMAIN users,
                                vote \in BodyVotes \ LegalFor(route) :
            Served(route, id, uid, vote) => resp' = 400 /\ UNCHANGED storage]_vars

\* the whole effect of one vote, as the design gives it: the ledger transition
\* and the counter delta of the subject together, and nothing else
WholeVote(kind, id, uid, d) ==
    LET key == <<kind, id, "user", uid>>
        prior == Prior(kind, id, uid)
        dest == Dest(prior, d)
    IN  /\ userVotes' = IF dest = undefined THEN MapDelete(userVotes, key)
                                            ELSE MapSet(userVotes, key, dest)
        /\ memes' = IF kind # "meme" THEN memes
                    ELSE MapSet(memes, id,
                            [memes[id] EXCEPT
                                !.upvotes = @ + MemeDelta(prior, dest)[1],
                                !.downvotes = @ + MemeDelta(prior, dest)[2]])
        /\ comments' = IF kind # "comment" THEN comments
                       ELSE MapSet(comments, id,
                               [comments[id] EXCEPT
                                   !.upvotes = @ + (IF dest = undefined THEN -1 ELSE 1)])
        /\ resources' = IF kind # "resource" THEN resources
                        ELSE MapSet(resources, id,
                                [resources[id] EXCEPT
                                    !.votes = @ + Signed(dest) - Signed(prior)])
        /\ UNCHANGED <<users, gameSessions, counters>>

\* C9: while requests are in flight the counters are the tally of the ledger in
\* every state a handler or a reader can run in, and every step that changes
\* the store is the whole vote of one request, which from then on only awaits
\* its response: the store goes through the states of a serial order of votes.
C9_VoteIsOneStep ==
    /\ []C1_CountersTallyLedger
    /\ [][storage' # storage =>
            /\ \E kind \in Kinds : \E id \in DOMAIN Stored(kind), uid \in DOMAIN users,
                                      d \in Legal(kind) : WholeVote(kind, id, uid, d)
            /\ \E route \in Routes :
                  CopiesIn(awaiting(route, 200), inflight')
                      = CopiesIn(awaiting(route, 200), inflight) + 1]_vars

\* a vote request on meme 1 of user 1 waits for its handler while another on
\* the same meme has voted and awaits its response
C9_Witness ==
    /\ \E vote \in Directions : BagIn(waiting("memeVote", 1, 1, vote), inflight)
    /\ BagIn(awaiting("memeVote", 200), inflight)
    /\ Prior("meme", 1, 1) # undefined

(***************************************************************************)
(* A caller that casts two votes in a row, as one user on one subject on   *)
(* which the user holds no record, with the store in any state the other   *)
(* operations can bring it to.                                             *)
(***************************************************************************)
\* the counters of the subjects and the ledger
Tallies == [memes |-> memes, comments |-> comments, resources |-> resources,
            userVotes |-> userVotes]

CastFirst ==
    /\ script = Idle
    /\ \E kind \in Kinds :
          \E id \in Args(kind) \cap DOMAIN Stored(kind), uid \in Voters, d \in Legal(kind) :
              /\ Prior(kind, id, uid) = undefined
              /\ VoteCall(kind, id, uid, d)
              /\ LedgerBounded
              /\ script' = [pc |-> "once", kind |-> kind, id |-> id, uid |-> uid,
                            first |-> d, second |-> "-", before |-> Tallies]
    /\ UNCHANGED <<http, listing, site>>

CastAgain ==
    /\ script.pc = "once"
    /\ \E d \in Legal(script.kind) :
          /\ VoteCall(script.kind, script.id, script.uid, d)
          /\ script' = [script EXCEPT !.pc = "twice", !.second = d]
    /\ UNCHANGED <<http, listing, site>>

NextTwice ==
    \/ script = Idle /\ Next
    \/ CastFirst
    \/ CastAgain

SpecTwice == Init /\ [][NextTwice]_vars

\* C11: after the same direction was cast twice in a row by a user who held no
\* record on the subject, the counters of every subject and the ledger are
\* what they were before the first cast.
C11_ToggleRoundTrip ==
    (script.pc = "twice" /\ script.second = script.first) => Tallies = script.before

\* a resource was voted down twice in a row while the ledger holds a record
C11_Witness ==
    /\ script.pc = "twice" /\ script.second = script.first
    /\ script.kind = "resource" /\ script.first = "down"
    /\ userVotes # EmptyMap

\* the tallies after one cast of direction d by uid on a subject on which uid
\* held no record, from the tallies `before`
CastOnce(before, kind, id, uid, d) ==
    LET key == <<kind, id, "user", uid>>
    IN  [memes |-> IF kind # "meme" THEN before.memes
                   ELSE [before.memes EXCEPT
                            ![id].upvotes = @ + MemeDelta(undefined, d)[1],
                            ![id].downvotes = @ + MemeDelta(undefined, d)[2]],
         comments |-> IF kind # "comment" THEN before.comments
                      ELSE [before.comments EXCEPT ![id].upvotes = @ + 1],
         resources |-> IF kind # "resource" THEN before.resources
                       ELSE [before.resources EXCEPT ![id].votes = @ + Signed(d)],
         userVotes |-> MapSet(before.userVotes, key, d)]

\* C12: on a meme or a resource, up and then down cast in a row by a user who
\* held no record leave the counters and the ledger as a single cast of down
\* leaves them from the same state, and down and then up as a single up.
C12_SwitchIsSingleCast ==
    /\ (script.pc = "once" /\ script.kind # "comment") =>
            Tallies = CastOnce(script.before, script.kind, script.id, script.uid,
                               script.first)
    /\ (script.pc = "twice" /\ script.second # script.first) =>
            Tallies = CastOnce(script.before, script.kind, script.id, script.uid,
                               script.second)

\* a meme was voted up and then down while another user holds a record on it
C12_Witness ==
    /\ script.pc = "twice" /\ script.kind = "meme"
    /\ script.first = "up" /\ script.second = "down"
    /\ Cardinality(DOMAIN userVotes) = 2

(***************************************************************************)
(* Listing the memes.  Scores are kept as integers: the comparator of      *)
(* 'hot' is the code's difference of scores times HotDivisor, which has    *)
(* the same sign.                                                          *)
(***************************************************************************)
RECURSIVE InOrder(_)
\* the keys of a Map in insertion order: ids are handed out in ascending order
\* and set() on a stored key keeps its place
InOrder(keys) ==
    IF keys = {} THEN <<>>
    ELSE LET k == CHOOSE x \in keys : \A y \in keys : x <= y
         IN  <<k>> \o InOrder(keys \ {k})

\* Array.from(map.values())
Values(map) == LET keys == InOrder(DOMAIN map)
               IN  [i \in 1..Len(keys) |-> map[keys[i]]]

\* the comparators of getMemes: negative when a sorts before b
\* byNew with the operands the other way round
byNewAscending(a, b) == a.createdAt - b.createdAt
byNew(a, b) == b.createdAt - a.createdAt
\* byTop with the operands the other way round
byTopAscending(a, b) == (a.upvotes - a.downvotes) - (b.upvotes - b.downvotes)
byTop(a, b) == (b.upvotes - b.downvotes) - (a.upvotes - a.downvotes)
byHot(a, b) ==
    LET aScore == (b.upvotes - b.downvotes) * HotDivisor + b.createdAt
        bScore == (a.upvotes - a.downvotes) * HotDivisor + a.createdAt
    IN  aScore - bScore

\* if (sortBy === 'new') ... else if (sortBy === 'top') ... else ...
compare(sortBy, a, b) ==
    CASE sortBy = "new" -> byNew(a, b)
      [] sortBy = "top" -> byTop(a, b)
      [] OTHER -> byHot(a, b)

RECURSIVE place(_, _, _)
\* x put into a sorted array behind every element that does not sort after it
place(sorted, x, sortBy) ==
    IF sorted = <<>> THEN <<x>>
    ELSE IF compare(sortBy, Head(sorted), x) > 0
    THEN <<x>> \o sorted
    ELSE <<Head(sorted)>> \o place(Tail(sorted), x, sortBy)

RECURSIVE placeBeforeEqual(_, _, _)
\* x put into a sorted array in front of the elements it compares equal to
placeBeforeEqual(sorted, x, sortBy) ==
    IF sorted = <<>> THEN <<x>>
    ELSE IF compare(sortBy, Head(sorted), x) >= 0
    THEN <<x>> \o sorted
    ELSE <<Head(sorted)>> \o placeBeforeEqual(Tail(sorted), x, sortBy)

RECURSIVE sortUnstable(_, _)
\* a sort that turns equal elements round
sortUnstable(array, sortBy) ==
    IF array = <<>> THEN <<>>
    ELSE placeBeforeEqual(sortUnstable(SubSeq(array, 1, Len(array) - 1), sortBy),
                          array[Len(array)], sortBy)

RECURSIVE sort(_, _)
\* Array.prototype.sort(compareFn): a stable sort
sort(array, sortBy) ==
    IF array = <<>> THEN <<>>
    ELSE place(sort(SubSeq(array, 1, Len(array) - 1), sortBy),
               array[Len(array)], sortBy)

\* a relative index of slice(): counted from the end when negative, clamped
relative(index, len) ==
    IF index < 0 THEN (IF len + index < 0 THEN 0 ELSE len + index)
    ELSE (IF index > len THEN len ELSE index)

\* Array.prototype.slice(start, end)
slice(array, start, end) ==
    SubSeq(array, relative(start, Len(array)) + 1, relative(end, Len(array)))

\* "Attach author data to each meme"
withAuthor(meme) ==
    [meme |-> meme,
     author |-> IF meme.authorId \in DOMAIN users
                THEN [id |-> meme.authorId, username |-> users[meme.authorId].username]
                ELSE [id |-> 0, username |-> "null"]]

\* getMemes that takes the page before it sorts
getMemesSliceFirst(limit, offset, sortBy) ==
    LET paginatedMemes == sort(slice(Values(memes), offset, offset + limit), sortBy)
    IN  [i \in 1..Len(paginatedMemes) |-> withAuthor(paginatedMemes[i])]

getMemes(limit, offset, sortBy) ==
    LET paginatedMemes == slice(sort(Values(memes), sortBy), offset, offset + limit)
    IN  [i \in 1..Len(paginatedMemes) |-> withAuthor(paginatedMemes[i])]

\* what parseInt returns: <<n>> for a number n, NaN for a parameter that is
\* absent or not a number
NaN == <<>>
Number(n) == <<n>>
\* parseInt(...) || fallback: NaN and 0 are falsy
orElse(parsed, fallback) ==
    IF parsed = NaN \/ parsed = Number(0) THEN fallback ELSE parsed[1]

\* GET /api/memes without userId: what res.json sends.  query holds limit and
\* offset as parseInt reads them and sort as the string sent ("": absent)
memesRoute(query) ==
    getMemes(orElse(query.limit, DefaultLimit), orElse(query.offset, 0),
             IF query.sort = "" THEN "hot" ELSE query.sort)

(***************************************************************************)
(* A store to list: up to MaxRanked memes created at the clock's readings  *)
(* (which do not go back), each voted on by user 1 or not at all; then one *)
(* listing, asked of the store or through the route.                       *)
(***************************************************************************)
SortNames == {"new", "top", "hot", "best"}
Offsets == (-1)..MaxOffset
Limits == 0..MaxLimit \cup {DefaultLimit}

InitRank ==
    \E n \in 0..MaxRanked :
        \E tick \in [1..n -> 0..MaxTick], cast \in [1..n -> Directions \cup {undefined}] :
            /\ \A i, j \in 1..n : i <= j => tick[i] <= tick[j]
            /\ users = [u \in 1..1 |->
                          Registered(u)]
            /\ memes = [i \in 1..n |->
                          [id |-> i, authorId |-> 1,
                           upvotes |-> IF cast[i] = "up" THEN 1 ELSE 0,
                           downvotes |-> IF cast[i] = "down" THEN 1 ELSE 0,
                           createdAt |-> tick[i] * HotDivisor]]
            /\ userVotes = [k \in {voteKey("meme", i, 1) : i \in {x \in 1..n : cast[x] # undefined}}
                                |-> cast[k[2]]]
            /\ comments = EmptyMap
            /\ gameSessions = EmptyMap
            /\ resources = seedResources
            /\ userId = 2
            /\ memeId = n + 1
            /\ commentId = 1
            /\ gameSessionId = 1
            /\ resourceId = SeedCount + 1
            /\ result = "ok"
            /\ inflight = EmptyBag
            /\ resp = 0
            /\ script = Idle
            /\ listing = NoListing
            /\ NoVisitors

GetMemes ==
    /\ listing = NoListing
    /\ \E limit \in Limits, offset \in Offsets, sortBy \in SortNames :
          listing' = [op |-> "getMemes", limit |-> limit, offset |-> offset,
                      sortBy |-> sortBy, out |-> getMemes(limit, offset, sortBy)]
    /\ result' = "ok"
    /\ UNCHANGED <<storage, http, script, site>>

GetMemesRoute ==
    /\ listing = NoListing
    /\ \E limit \in {Number(n) : n \in Limits} \cup {NaN},
          offset \in {Number(n) : n \in Offsets} \cup {NaN},
          sortBy \in SortNames \cup {""} :
          LET query == [limit |-> limit, offset |-> offset, sort |-> sortBy]
          IN  listing' = [op |-> "GET /api/memes", limit |-> limit, offset |-> offset,
                          sortBy |-> sortBy, out |-> memesRoute(query)]
    /\ result' = "ok"
    /\ resp' = 200
    /\ UNCHANGED <<storage, inflight, script, site>>

NextRank ==
    \/ GetMemes
    \/ GetMemesRoute

SpecRank == InitRank /\ [][NextRank]_vars

(***************************************************************************)
(* What the design says of a listing of memes.                             *)
(***************************************************************************)
Listed == listing.op \in {"getMemes", "GET /api/memes"}
\* the arguments getMemes ran with
AskedSort == IF listing.op = "GET /api/memes" /\ listing.sortBy = "" THEN "hot"
             ELSE listing.sortBy
AskedLimit == IF listing.op = "GET /api/memes"
              THEN orElse(listing.limit, DefaultLimit) ELSE listing.limit
AskedOffset == IF listing.op = "GET /api/memes"
               THEN orElse(listing.offset, 0) ELSE listing.offset
\* the ids of the memes returned, in order
OutIds == [i \in 1..Len(listing.out) |-> listing.out[i].meme.id]
Net(meme) == meme.upvotes - meme.downvotes
\* the key a policy sorts by, in descending order; for hot it is the score the
\* code computes, times HotDivisor; a name that is neither new nor top is hot
SortKey(policy, meme) ==
    CASE policy = "new" -> meme.createdAt
      [] policy = "top" -> Net(meme)
      [] OTHER -> Net(meme) * HotDivisor + meme.createdAt
\* the place of a stored meme in the whole collection sorted by the policy,
\* equal keys in ascending id
Rank(policy, id) ==
    1 + Cardinality({x \in DOMAIN memes :
            \/ SortKey(policy, memes[x]) > SortKey(policy, memes[id])
            \/ SortKey(policy, memes[x]) = SortKey(policy, memes[id]) /\ x < id})

\* C13: a hot listing is in descending order of (upvotes - downvotes) +
\* creationTimestampSeconds / 1,000,000 (here times 1,000,000).
C13_HotBySeconds ==
    (Listed /\ AskedSort = "hot") =>
        \A i, j \in 1..Len(listing.out) :
            i < j => Net(memes[OutIds[i]]) * 1000000 + memes[OutIds[i]].createdAt \div 1000
                        >= Net(memes[OutIds[j]]) * 1000000 + memes[OutIds[j]].createdAt \div 1000

\* C14: a top listing is in descending order of upvotes - downvotes.
C14_TopDescending ==
    (Listed /\ AskedSort = "top") =>
        \A i, j \in 1..Len(listing.out) :
            i < j => Net(listing.out[i].meme) >= Net(listing.out[j].meme)

\* a top listing of three memes, the last of which has the highest net score
C14_Witness ==
    /\ Listed /\ AskedSort = "top"
    /\ Len(listing.out) = 3
    /\ OutIds[1] = 3 /\ Net(memes[3]) > Net(memes[1])

\* C15: a new listing is in descending order of createdAt.
C15_NewDescending ==
    (Listed /\ AskedSort = "new") =>
        \A i, j \in 1..Len(listing.out) :
            i < j => listing.out[i].meme.createdAt >= listing.out[j].meme.createdAt

\* a new listing of three memes created at three times
C15_Witness ==
    /\ Listed /\ AskedSort = "new"
    /\ OutIds = <<3, 2, 1>>
    /\ memes[3].createdAt > memes[2].createdAt /\ memes[2].createdAt > memes[1].createdAt

\* C16: under every policy two returned memes with equal sort key are in
\* ascending order of id, the order they were inserted in.
C16_Stable ==
    Listed =>
        \A i, j \in 1..Len(listing.out) :
            (i < j /\ SortKey(AskedSort, memes[OutIds[i]]) = SortKey(AskedSort, memes[OutIds[j]]))
                => OutIds[i] < OutIds[j]

\* a hot listing returns, in the order of their ids, two memes whose different
\* net scores and creation times add up to the same hot score, behind a meme
\* created after them
C16_Witness ==
    /\ Listed /\ AskedSort = "hot"
    /\ OutIds = <<3, 1, 2>>
    /\ Net(memes[1]) # Net(memes[2])
    /\ SortKey("hot", memes[1]) = SortKey("hot", memes[2])

\* C17: for offset >= 0 and limit >= 0 the listing is the memes at places
\* offset+1 .. offset+limit of the whole collection sorted by the policy (fewer
\* where the collection ends), and never more than limit memes.
C17_PageOfSorted ==
    (Listed /\ AskedOffset >= 0 /\ AskedLimit >= 0) =>
        /\ Len(listing.out) <= AskedLimit
        /\ \A id \in DOMAIN memes :
              (Rank(AskedSort, id) > AskedOffset
                    /\ Rank(AskedSort, id) <= AskedOffset + AskedLimit)
                 => /\ Rank(AskedSort, id) - AskedOffset <= Len(listing.out)
                    /\ OutIds[Rank(AskedSort, id) - AskedOffset] = id
        /\ \A i \in 1..Len(listing.out) :
              /\ OutIds[i] \in DOMAIN memes
              /\ Rank(AskedSort, OutIds[i]) = AskedOffset + i

\* the second place of a top listing of three memes is a meme that is not the
\* second of the first two inserted
C17_Witness ==
    /\ listing.op = "getMemes" /\ listing.sortBy = "top"
    /\ listing.offset = 1 /\ listing.limit = 1
    /\ Cardinality(DOMAIN memes) = 3
    /\ OutIds = <<1>>
    /\ Net(memes[3]) > Net(memes[1]) /\ Net(memes[1]) > Net(memes[2])

\* C18: an offset that is negative or not below the number of memes gives an
\* empty listing.
C18_OutOfRangeIsEmpty ==
    (Listed /\ (AskedOffset < 0 \/ AskedOffset >= Cardinality(DOMAIN memes)))
        => listing.out = <<>>

(***************************************************************************)
(* Listing the resources.                                                  *)
(***************************************************************************)
\* the comparator of getResources
byVotes(a, b) == b.votes - a.votes

RECURSIVE placeByVotes(_, _)
placeByVotes(sorted, x) ==
    IF sorted = <<>> THEN <<x>>
    ELSE IF byVotes(Head(sorted), x) > 0
    THEN <<x>> \o sorted
    ELSE <<Head(sorted)>> \o placeByVotes(Tail(sorted), x)

RECURSIVE sortByVotes(_)
\* resources.sort((a, b) => b.votes - a.votes)
sortByVotes(array) ==
    IF array = <<>> THEN <<>>
    ELSE placeByVotes(sortByVotes(SubSeq(array, 1, Len(array) - 1)), array[Len(array)])

RECURSIVE filter(_, _)
\* resources.filter(resource => resource.category === category)
filter(array, category) ==
    IF array = <<>> THEN <<>>
    ELSE (IF Head(array).category = category THEN <<Head(array)>> ELSE <<>>)
            \o filter(Tail(array), category)

\* getResources that does not filter
getResourcesNoFilter(category) == sortByVotes(Values(resources))

\* if (category): undefined and the empty string are falsy
getResources(category) ==
    IF category # undefined /\ category # ""
    THEN sortByVotes(filter(Values(resources), category))
    ELSE sortByVotes(Values(resources))

(***************************************************************************)
(* A store whose resources are listed: the seeded resources and up to      *)
(* MaxExtra created ones, each voted on by user 1 or not at all; then one  *)
(* listing.                                                                *)
(***************************************************************************)
Categories == {"contracts", "pricing", "communication", "legal", ""}

InitResources ==
    \E n \in 0..MaxExtra :
        \E given \in [SeedCount + 1..SeedCount + n -> {"contracts", ""}],
           cast \in [1..SeedCount + n -> Directions \cup {undefined}] :
            /\ users = [u \in 1..1 |->
                          Registered(u)]
            /\ resources = [i \in 1..SeedCount + n |->
                              [id |-> i,
                               category |-> IF i <= SeedCount THEN seedResources[i].category
                                            ELSE given[i],
                               votes |-> Signed(cast[i])]]
            /\ userVotes = [k \in {voteKey("resource", i, 1) :
                                      i \in {x \in 1..SeedCount + n : cast[x] # undefined}}
                                |-> cast[k[2]]]
            /\ memes = EmptyMap
            /\ comments = EmptyMap
            /\ gameSessions = EmptyMap
            /\ userId = 2
            /\ memeId = 1
            /\ commentId = 1
            /\ gameSessionId = 1
            /\ resourceId = SeedCount + n + 1
            /\ result = "ok"
            /\ inflight = EmptyBag
            /\ resp = 0
            /\ script = Idle
            /\ listing = NoListing
            /\ NoVisitors

GetResources ==
    /\ listing = NoListing
    /\ \E category \in Categories \cup {undefined} :
          listing' = [op |-> "getResources", category |-> category,
                      out |-> getResources(category)]
    /\ result' = "ok"
    /\ UNCHANGED <<storage, http, script, site>>

NextResources == GetResources

SpecResources == InitResources /\ [][NextResources]_vars

\* the ids of the resources returned
ListedResources == {listing.out[i].id : i \in 1..Len(listing.out)}
\* the stored resources of a category
InCategory(category) == {id \in DOMAIN resources : resources[id].category = category}
\* the listing is in descending order of votes and names no resource twice
DescendingVotes ==
    /\ \A i, j \in 1..Len(listing.out) :
          i < j => listing.out[i].votes >= listing.out[j].votes
    /\ Cardinality(ListedResources) = Len(listing.out)
    /\ \A i \in 1..Len(listing.out) :
          listing.out[i].id \in DOMAIN resources
              /\ listing.out[i] = resources[listing.out[i].id]

\* C19 as stated: the listing is in descending order of votes; with a category
\* string it holds exactly the stored resources of that category, without one
\* all stored resources.
C19_ExactCategory ==
    listing.op = "getResources" =>
        /\ DescendingVotes
        /\ ListedResources = IF listing.category = undefined THEN DOMAIN resources
                              ELSE InCategory(listing.category)

\* C19 amended: the listing is in descending order of votes; with a non-empty
\* category string it holds exactly the stored resources of that category,
\* without one or with the empty string all stored resources.
C19_NonEmptyCategory ==
    listing.op = "getResources" =>
        /\ DescendingVotes
        /\ ListedResources = IF listing.category \in {undefined, ""} THEN DOMAIN resources
                              ELSE InCategory(listing.category)

\* the two resources of category contracts are listed, the created one with
\* more votes in front of the seeded one, out of a store of four
C19_Witness ==
    /\ listing.op = "getResources" /\ listing.category = "contracts"
    /\ Len(listing.out) = 2
    /\ listing.out[1].id = SeedCount + 1 /\ listing.out[2].id = 1
    /\ listing.out[1].votes > listing.out[2].votes

(***************************************************************************)
(* Creation alone: every create operation, called with an input of its     *)
(* declared fields or with one that also carries an id and counters.       *)
(***************************************************************************)
MemeInputs ==
    {[authorId |-> 1],
     [authorId |-> 1, id |-> 1, upvotes |-> 5, downvotes |-> 2]}
CommentInputs ==
    {[memeId |-> 1, authorId |-> 1],
     [memeId |-> 1, authorId |-> 1, id |-> 1, upvotes |-> 5]}
ResourceInputs ==
    {[category |-> "legal"],
     [category |-> "legal", id |-> 1, votes |-> 5]}

NewUser ==
    /\ userId <= MaxCreated
    /\ \E insertUser \in {Person(userId)} : createUser(insertUser)

NewMeme ==
    /\ memeId <= MaxCreated
    /\ \E insertMeme \in MemeInputs, now \in {0, HotDivisor} : createMeme(insertMeme, now)

NewComment ==
    /\ commentId <= MaxCreated
    /\ \E insertComment \in CommentInputs : createComment(insertComment)

NewGameSession ==
    /\ gameSessionId <= MaxCreated
    /\ \E uid \in {1} : createGameSession([userId |-> uid], 0)

NewResource ==
    /\ resourceId <= SeedCount + MaxCreated
    /\ \E insertResource \in ResourceInputs : createResource(insertResource)

NextCreate ==
    \/ NewUser /\ UNCHANGED <<http, client>>
    \/ NewMeme /\ UNCHANGED <<http, client>>
    \/ NewComment /\ UNCHANGED <<http, client>>
    \/ NewGameSession /\ UNCHANGED <<http, client>>
    \/ NewResource /\ UNCHANGED <<http, client>>

SpecCreate == Init /\ [][NextCreate]_vars

\* every entity of the map is stored under its own id
OwnId(map) == \A id \in DOMAIN map : map[id].id = id
\* the step keeps the entities of the map, and an entity it adds has an id
\* above every id of the map
AddsAbove(before, after) ==
    /\ DOMAIN before \subseteq DOMAIN after
    /\ \A new \in DOMAIN after \ DOMAIN before : \A old \in DOMAIN before : new > old

\* C20: in each kind every entity is stored under its own id, the seeded
\* resources included; a step that creates an entity gives it an id above
\* every id the kind holds and removes none; a meme, comment or resource is
\* created with its counters at 0 whatever the input carries.
C20_FreshIdZeroCounters ==
    /\ [](OwnId(users) /\ OwnId(memes) /\ OwnId(comments) /\ OwnId(gameSessions)
            /\ OwnId(resources))
    /\ [][/\ AddsAbove(users, users') /\ AddsAbove(memes, memes')
          /\ AddsAbove(comments, comments') /\ AddsAbove(gameSessions, gameSessions')
          /\ AddsAbove(resources, resources')
          /\ \A id \in DOMAIN memes' \ DOMAIN memes :
                memes'[id].upvotes = 0 /\ memes'[id].downvotes = 0
          /\ \A id \in DOMAIN comments' \ DOMAIN comments : comments'[id].upvotes = 0
          /\ \A id \in DOMAIN resources' \ DOMAIN resources : resources'[id].votes = 0
        ]_vars

\* two entities of every kind have been created, the resources after the
\* seeded ones
C20_Witness ==
    /\ DOMAIN users = 1..2 /\ DOMAIN memes = 1..2 /\ DOMAIN comments = 1..2
    /\ DOMAIN gameSessions = 1..2
    /\ DOMAIN resources = 1..(SeedCount + 2)

(***************************************************************************)
(* A caller that casts two votes in a row under different ledger keys, on  *)
(* a store that holds two memes, a comment and the seeded resources and a  *)
(* ledger of up to MaxLedger records.                                      *)
(***************************************************************************)
PairSubjects == {<<"meme", 1>>, <<"meme", 2>>, <<"comment", 1>>, <<"resource", 1>>}
PairKeys == {voteKey(sub[1], sub[2], uid) : sub \in PairSubjects, uid \in Voters}
PairCalls == {[kind |-> sub[1], id |-> sub[2], uid |-> uid, d |-> d] :
                sub \in PairSubjects, uid \in Voters, d \in Directions}

InitPair ==
    \E held \in SUBSET PairKeys :
        /\ Cardinality(held) <= MaxLedger
        /\ \E ledger \in [held -> Directions] :
              /\ \A k \in held : k[1] = "comment" => ledger[k] = "up"
              /\ userVotes = ledger
        /\ users = [u \in 1..2 |->
                      Registered(u)]
        /\ memes = [i \in 1..2 |->
                      [id |-> i, authorId |-> 1, upvotes |-> Ups("meme", i),
                       downvotes |-> Downs("meme", i), createdAt |-> 0]]
        /\ comments = [i \in 1..1 |->
                         [id |-> i, memeId |-> 1, authorId |-> 1,
                          upvotes |-> Ups("comment", i)]]
        /\ resources = [i \in 1..SeedCount |->
                          [seedResources[i] EXCEPT
                              !.votes = Ups("resource", i) - Downs("resource", i)]]
        /\ gameSessions = EmptyMap
        /\ userId = 3
        /\ memeId = 3
        /\ commentId = 2
        /\ gameSessionId = 1
        /\ resourceId = SeedCount + 1
        /\ result = "ok"
        /\ inflight = EmptyBag
        /\ resp = 0
        /\ script = Idle
        /\ listing = NoListing
        /\ NoVisitors

PairFirst ==
    /\ script = Idle
    /\ \E a \in PairCalls :
          /\ a.d \in Legal(a.kind)
          /\ VoteCall(a.kind, a.id, a.uid, a.d)
          /\ script' = [pc |-> "first", a |-> a, b |-> a, before |-> Tallies]
    /\ UNCHANGED <<http, listing, site>>

PairSecond ==
    /\ script.pc = "first"
    /\ \E b \in PairCalls :
          /\ b.d \in Legal(b.kind)
          /\ <<b.kind, b.id, b.uid>> # <<script.a.kind, script.a.id, script.a.uid>>
          /\ VoteCall(b.kind, b.id, b.uid, b.d)
          /\ script' = [script EXCEPT !.pc = "both", !.b = b]
    /\ UNCHANGED <<http, listing, site>>

NextPair ==
    \/ PairFirst
    \/ PairSecond

SpecPair == InitPair /\ [][NextPair]_vars

\* the tallies a vote leaves, from the tallies t, as the design gives them: the
\* record goes where the direction takes it and the counters of the subject
\* move by the difference
After(t, call) ==
    LET key == <<call.kind, call.id, "user", call.uid>>
        prior == MapGet(t.userVotes, key)
        dest == Dest(prior, call.d)
    IN  [memes |-> IF call.kind # "meme" THEN t.memes
                   ELSE [t.memes EXCEPT
                            ![call.id].upvotes = @ + MemeDelta(prior, dest)[1],
                            ![call.id].downvotes = @ + MemeDelta(prior, dest)[2]],
         comments |-> IF call.kind # "comment" THEN t.comments
                      ELSE [t.comments EXCEPT
                               ![call.id].upvotes = @ + (IF dest = undefined THEN -1 ELSE 1)],
         resources |-> IF call.kind # "resource" THEN t.resources
                       ELSE [t.resources EXCEPT
                                ![call.id].votes = @ + Signed(dest) - Signed(prior)],
         userVotes |-> IF dest = undefined THEN MapDelete(t.userVotes, key)
                       ELSE MapSet(t.userVotes, key, dest)]

\* C21: two votes under different keys (different subjects, or different users
\* on one subject), cast one after the other, leave the counters and the
\* ledger that the two leave in the other order from the same state.
C21_VotesCommute ==
    script.pc = "both" =>
        /\ Tallies = After(After(script.before, script.a), script.b)
        /\ Tallies = After(After(script.before, script.b), script.a)

\* two users have voted on meme 1, one switching a down record to up and the
\* other taking an up record back
C21_Witness ==
    /\ script.pc = "both"
    /\ script.a.kind = "meme" /\ script.b.kind = "meme"
    /\ script.a.id = 1 /\ script.b.id = 1
    /\ script.a.d = "up" /\ script.b.d = "up"
    /\ MapGet(script.before.userVotes, <<"meme", 1, "user", script.a.uid>>) = "down"
    /\ MapGet(script.before.userVotes, <<"meme", 1, "user", script.b.uid>>) = "up"

(***************************************************************************)
(* One request at a time through isAuthenticated, with a monitor that      *)
(* counts what the middleware did with it: calls of next() and 401         *)
(* responses, the users under whose keys the ledger changed, and whether   *)
(* the store changed at all.                                               *)
(***************************************************************************)
AwaitingIn(bag) == BagCardinality([r \in {q \in BagToSet(bag) : q.pc = "awaiting"} |-> bag[r]])

\* the step sent a response from the middleware or from the handler's checks
SentOnArrival == inflight' = inflight
SentOnThen == BagCardinality(inflight') < BagCardinality(inflight)

\* next() was called in the step: the handler reached its storage call, or it
\* answered 400 itself
NextCalls(sent) == IF AwaitingIn(inflight') > AwaitingIn(inflight) \/ (sent /\ resp' = 400)
                   THEN 1 ELSE 0
Denials(sent) == IF sent /\ resp' = 401 THEN 1 ELSE 0
Actors == {k[4] : k \in {q \in DOMAIN userVotes \cup DOMAIN userVotes' :
                            MapGet(userVotes', q) # MapGet(userVotes, q)}}

AuthArrive ==
    /\ script = Idle
    /\ inflight = EmptyBag
    /\ \E route \in Routes, id \in HttpIds, cred \in Credentials, vote \in BodyVotes :
          /\ isAuthenticated(route, id, cred, vote)
          /\ LedgerBounded
          /\ script' = [pc |-> IF inflight' = EmptyBag THEN "over" ELSE "open",
                        cred |-> cred, stored |-> cred.id \in DOMAIN users,
                        route |-> route, id |-> id, vote |-> vote, before |-> Tallies,
                        nexts |-> NextCalls(SentOnArrival),
                        denials |-> Denials(SentOnArrival),
                        answers |-> IF SentOnArrival THEN 1 ELSE 0,
                        actors |-> Actors, changed |-> storage' # storage]
    /\ UNCHANGED <<listing, site>>

AuthThen ==
    /\ script.pc = "open"
    /\ \E req \in BagToSet(inflight) :
          /\ getUserThen(req)
          /\ LedgerBounded
          /\ script' = [script EXCEPT
                            !.pc = IF inflight' = EmptyBag THEN "over" ELSE "open",
                            !.nexts = @ + NextCalls(SentOnThen),
                            !.denials = @ + Denials(SentOnThen),
                            !.answers = @ + (IF SentOnThen THEN 1 ELSE 0),
                            !.actors = @ \cup Actors,
                            !.changed = @ \/ storage' # storage]
    /\ UNCHANGED <<listing, site>>

AuthRespond ==
    /\ script.pc = "open"
    /\ \E req \in BagToSet(inflight) : respond(req)
    /\ script' = [script EXCEPT !.pc = IF inflight' = EmptyBag THEN "over" ELSE "open",
                                !.answers = @ + 1]
    /\ UNCHANGED <<listing, site>>

\* the connection is closed and the next request may arrive
AuthNext ==
    /\ script.pc = "over"
    /\ script' = Idle
    /\ UNCHANGED <<storage, result, http, listing, site>>

NextAuth ==
    \/ AuthArrive
    \/ AuthThen
    \/ AuthRespond
    \/ AuthNext

SpecAuth == InitHttp /\ [][NextAuth]_vars

\* the request carries an authenticated session, or a Bearer token that
\* verifies and names a stored user
Authorized(cred, stored) ==
    \/ cred.via = "session"
    \/ cred.via = "bearer" /\ cred.id # 0 /\ stored

\* C22: of a request through isAuthenticated, never both next() and a 401 and
\* neither twice; once the request is over exactly one of them has happened;
\* next() is called only for an authenticated session or a verifying Bearer
\* token whose id names a stored user, and the handler then acts as that
\* user; a request answered 401 has changed nothing in the store.
C22_NextOrUnauthorized ==
    script.pc \in {"open", "over"} =>
        /\ script.nexts + script.denials <= 1
        /\ script.pc = "over" => script.nexts + script.denials = 1
        /\ script.nexts = 1 =>
              /\ Authorized(script.cred, script.stored)
              /\ script.actors \subseteq {script.cred.id}
        /\ script.pc = "over" /\ ~Authorized(script.cred, script.stored) =>
              script.denials = 1
        /\ script.denials = 1 => ~script.changed /\ script.nexts = 0

\* a Bearer token of a stored user has passed and a vote was cast as that user
C22_Witness ==
    /\ script.pc = "over"
    /\ script.cred = [via |-> "bearer", id |-> 2]
    /\ script.nexts = 1
    /\ script.actors = {2}

\* a Bearer token that verifies but names no stored user was answered 401
C22_WitnessDenied ==
    /\ script.pc = "over"
    /\ script.cred = [via |-> "bearer", id |-> 3]
    /\ script.denials = 1

(***************************************************************************)
(* POST /register.  getUserByEmail and getUserByUsername return promises   *)
(* that are already settled (their bodies hold no await), so the handler   *)
(* resumes from awaiting them before any other request is served; it is at *)
(* await bcrypt.hash, which yields to the event loop, and at the saving of *)
(* the session by req.login, that other requests are served.  A user is    *)
(* told by its id (0: undefined).                                          *)
(***************************************************************************)
MaxAccounts == 2

getUserByEmail(email) ==
    LET hits == {id \in DOMAIN users : users[id].email = email}
    IN  IF hits = {} THEN 0 ELSE CHOOSE id \in hits : \A other \in hits : id <= other

getUserByUsername(username) ==
    LET hits == {id \in DOMAIN users : users[id].username = username}
    IN  IF hits = {} THEN 0 ELSE CHOOSE id \in hits : \A other \in hits : id <= other

\* a registration suspended at an await; user is the user created (0: none yet)
registering(pc, body, user) == [pc |-> pc, body |-> body, user |-> user]

\* validationSchema.parse(req.body), the two checks, then await bcrypt.hash(...)
register(body) ==
    /\ IF \/ body.password # body.confirmPassword
          \/ getUserByEmail(body.email) # 0
          \/ getUserByUsername(body.username) # 0
       THEN send(inflight, 400)
       ELSE /\ inflight' = inflight (+) SetToBag({registering("hashing", body, 0)})
            /\ UNCHANGED resp
    /\ UNCHANGED <<storage, result, site>>

\* await storage.createUser({..., password: hashedPassword, ...}),
\* generateToken(user) and the call of req.login(user, ...)
registerAfterHash(req) ==
    /\ BagIn(req, inflight)
    /\ req.pc = "hashing"
    /\ createUser([email |-> req.body.email, username |-> req.body.username,
                   password |-> hash(req.body.password)])
    /\ tokens' = tokens \cup {userId}
    /\ inflight' = (inflight (-) SetToBag({req})) (+)
                        SetToBag({registering("created", req.body, userId)})
    /\ UNCHANGED <<resp, sessions, newsletterSubscribers>>

\* the callback of req.login: the session holds the login; the 201 response
registerAfterCreate(req) ==
    /\ BagIn(req, inflight)
    /\ req.pc = "created"
    /\ sessions' = Append(sessions, [user |-> req.user, live |-> TRUE])
    /\ send(inflight (-) SetToBag({req}), 201)
    /\ UNCHANGED <<storage, result, tokens, newsletterSubscribers>>

\* request bodies whose email and password pass the schemas: two with one
\* email, two with one username, and one whose confirmPassword differs
RegisterBodies ==
    {[email |-> "ann@x.io", username |-> "ann", password |-> "Ann12345",
      confirmPassword |-> "Ann12345"],
     [email |-> "ann@x.io", username |-> "bob", password |-> "Bob12345",
      confirmPassword |-> "Bob12345"],
     [email |-> "cat@x.io", username |-> "ann", password |-> "Cat12345",
      confirmPassword |-> "Cat12345"],
     [email |-> "dan@x.io", username |-> "dan", password |-> "Dan12345",
      confirmPassword |-> "Dan1234"]}

Register ==
    /\ BagCardinality(inflight) < MaxReqs
    /\ userId - 1 + BagCardinality(inflight) < MaxAccounts
    /\ \E body \in RegisterBodies : register(body)

RegisterAfterHash == \E req \in BagToSet(inflight) : registerAfterHash(req)
RegisterAfterCreate == \E req \in BagToSet(inflight) : registerAfterCreate(req)

NextRegister ==
    \/ Register /\ UNCHANGED <<script, listing>>
    \/ RegisterAfterHash /\ UNCHANGED <<script, listing>>
    \/ RegisterAfterCreate /\ UNCHANGED <<script, listing>>

SpecRegister == Init /\ [][NextRegister]_vars

\* C23: whatever the interleaving of registration requests, no two stored
\* users share an email and no two stored users share a username.
C23_UniqueEmailAndUsername ==
    \A a, b \in DOMAIN users :
        a # b => /\ users[a].email # users[b].email
                 /\ users[a].username # users[b].username

(***************************************************************************)
(* POST /login, POST /logout and requests to a protected route with the    *)
(* credentials the server has issued, on a store filled by registrations   *)
(* and by createUser for an account of a social login.                     *)
(***************************************************************************)
MaxSessions == 3

\* a login suspended at await bcrypt.compare; user is what getUserByUsername found
loggingIn(pc, body, user) == [pc |-> pc, body |-> body, user |-> user]

\* passport.authenticate('local', ...): the strategy fails at once on a missing
\* field; the verify callback finds the user by name, fails without a user or
\* without a password, and awaits bcrypt.compare
login(body) ==
    /\ LET user == getUserByUsername(body.username)
       IN  IF \/ body.username = "" \/ body.password = ""
              \/ user = 0
              \/ users[user].password = null
           THEN send(inflight, 401)
           ELSE /\ inflight' = inflight (+) SetToBag({loggingIn("comparing", body, user)})
                /\ UNCHANGED resp
    /\ UNCHANGED <<storage, result, site>>

\* if (!isValidPassword) ...; done(null, user): req.login, generateToken, res.json
loginAfterCompare(req) ==
    /\ BagIn(req, inflight)
    /\ req.pc = "comparing"
    /\ LET others == inflight (-) SetToBag({req})
       IN  IF ~bcryptCompare(req.body.password, users[req.user].password)
           THEN send(others, 401) /\ UNCHANGED site
           ELSE /\ sessions' = Append(sessions, [user |-> req.user, live |-> TRUE])
                /\ tokens' = tokens \cup {req.user}
                /\ send(others, 200)
                /\ UNCHANGED newsletterSubscribers
    /\ UNCHANGED <<storage, result>>

\* POST /logout with the cookie of session sid: req.logout clears the login
logout(sid) ==
    /\ sessions' = [sessions EXCEPT ![sid].live = FALSE]
    /\ send(inflight, 200)
    /\ UNCHANGED <<storage, result, tokens, newsletterSubscribers>>

LoginBodies ==
    {[username |-> "ann", password |-> "Ann12345"],
     [username |-> "ann", password |-> "Cat12345"],
     [username |-> "bob", password |-> "Ann12345"],
     [username |-> "sam", password |-> "Sam12345"],
     [username |-> "zed", password |-> "Ann12345"],
     [username |-> "ann", password |-> ""]}

\* storage.createUser for an account that signs in elsewhere: no password
CreateSocialUser ==
    /\ inflight = EmptyBag
    /\ userId - 1 < MaxAccounts
    /\ getUserByUsername("sam") = 0
    /\ createUser([email |-> "sam@x.io", username |-> "sam", password |-> null])
    /\ UNCHANGED <<http, client>>

\* a login arrives when no registration is under way, so that the users it is
\* judged against are those stored from its arrival to its answer
Login ==
    /\ script = Idle
    /\ inflight = EmptyBag
    /\ Len(sessions) < MaxSessions
    /\ \E body \in LoginBodies : login(body)
    /\ UNCHANGED <<script, listing>>

LoginAfterCompare ==
    /\ \E req \in BagToSet(inflight) : loginAfterCompare(req)
    /\ UNCHANGED <<script, listing>>

Logout ==
    /\ script = Idle
    /\ inflight = EmptyBag
    /\ \E sid \in DOMAIN sessions : logout(sid)
    /\ UNCHANGED <<script, listing>>

\* what isAuthenticated sees of a request that presents the cookie of session
\* sid, and of one that presents a token signed for user uid
bySession(sid) ==
    IF sessions[sid].live THEN [via |-> "session", id |-> sessions[sid].user]
    ELSE [via |-> "none", id |-> 0]
byToken(uid) == [via |-> "bearer", id |-> uid]

\* a request to POST /api/memes/:id/vote with a credential issued earlier
Protected ==
    /\ script = Idle
    /\ inflight = EmptyBag
    /\ \E held \in [via : {"session"}, of : DOMAIN sessions] \cup
                     [via : {"bearer"}, of : tokens] :
          LET cred == IF held.via = "session" THEN bySession(held.of) ELSE byToken(held.of)
          IN  /\ isAuthenticated("memeVote", 1, cred, "up")
              /\ script' = [pc |-> IF inflight' = EmptyBag THEN "over" ELSE "open",
                            cred |-> cred, stored |-> cred.id \in DOMAIN users,
                            holder |-> IF held.via = "session"
                                       THEN sessions[held.of].user ELSE held.of,
                            nexts |-> NextCalls(SentOnArrival),
                            denials |-> Denials(SentOnArrival),
                            answers |-> IF SentOnArrival THEN 1 ELSE 0,
                            actors |-> Actors, changed |-> storage' # storage]
    /\ UNCHANGED <<listing, site>>

\* no login is suspended at an await
NoLoginPending == \A req \in BagToSet(inflight) : req.pc # "comparing"

NextLogin ==
    \/ script = Idle /\ NoLoginPending /\ Len(sessions) < MaxSessions /\ NextRegister
    \/ CreateSocialUser
    \/ Login
    \/ LoginAfterCompare
    \/ Logout
    \/ Protected
    \/ AuthThen
    \/ AuthRespond
    \/ AuthNext

SpecLogin == Init /\ [][NextLogin]_vars

\* some stored user has the username and a password that the submitted one matches
Eligible(body) ==
    \E id \in DOMAIN users :
        /\ users[id].username = body.username
        /\ users[id].password # null
        /\ bcryptCompare(body.password, users[id].password)

\* the step has answered the login of body
LoginAnswered(body) ==
    \/ login(body) /\ inflight' = inflight
    \/ \E req \in BagToSet(inflight) :
          /\ req.pc = "comparing"
          /\ req.body = body
          /\ loginAfterCompare(req)

\* C24: a login is answered 200 with a new session and a token exactly when a
\* stored user has the submitted username and a non-null password that the
\* submitted password matches; every other login is answered 401, creates no
\* session, issues no token and leaves the users unchanged.
C24_LoginIffMatch ==
    [][\A body \in LoginBodies :
          LoginAnswered(body) =>
              IF Eligible(body)
              THEN /\ resp' = 200
                   /\ Len(sessions') = Len(sessions) + 1
                   /\ sessions'[Len(sessions')].live
                   /\ sessions'[Len(sessions')].user \in tokens'
              ELSE /\ resp' = 401
                   /\ UNCHANGED <<sessions, tokens, users>>]_vars

\* every session issued to the user has been logged out
LoggedOut(uid) ==
    /\ \E sid \in DOMAIN sessions : sessions[sid].user = uid
    /\ \A sid \in DOMAIN sessions : sessions[sid].user = uid => ~sessions[sid].live

\* C29: after a user has logged out and until they log in again, a request to
\* a protected route with a session or a token issued to them earlier is
\* answered 401.
C29_LogoutRevokes ==
    (script.pc = "over" /\ "holder" \in DOMAIN script /\ LoggedOut(script.holder)) =>
        script.denials = 1 /\ script.nexts = 0

(***************************************************************************)
(* The routes that create a meme, a comment, a game session or a resource, *)
(* as their handlers run once isAuthenticated has called next() with the   *)
(* user uid attached.  The storage calls of a handler return promises that *)
(* are already settled, so the handler runs to its response before another *)
(* request is served: one step.                                            *)
(***************************************************************************)
MaxOwned == 1

ZodError == [name |-> "ZodError"]

\* schema.parse(input) of a schema made by pick: the picked keys of the input,
\* or a ZodError when a column that is notNull is missing
parse(picked, required, input) ==
    IF ~(required \subseteq DOMAIN input) THEN ZodError
    ELSE [k \in DOMAIN input \cap picked |-> input[k]]

\* POST /api/memes with the body's fields written over authorId
postMemeBodyWins(uid, body, now) ==
    LET memeData == parse({"authorId", "imageUrl", "caption"}, {"imageUrl"},
                          Spread([authorId |-> uid], body))
    IN  IF memeData = ZodError
        THEN send(inflight, 400) /\ UNCHANGED <<storage, result>>
        ELSE createMeme(memeData, now) /\ send(inflight, 201)

\* POST /api/memes
postMeme(uid, body, now) ==
    LET memeData == parse({"authorId", "imageUrl", "caption"}, {"imageUrl"},
                          Spread(body, [authorId |-> uid]))
    IN  IF memeData = ZodError
        THEN send(inflight, 400) /\ UNCHANGED <<storage, result>>
        ELSE createMeme(memeData, now) /\ send(inflight, 201)

\* POST /api/comments
postComment(uid, body) ==
    LET commentData == parse({"memeId", "authorId", "body", "parentId"}, {"body"},
                             Spread(body, [authorId |-> uid]))
    IN  IF commentData = ZodError
        THEN send(inflight, 400) /\ UNCHANGED <<storage, result>>
        ELSE createComment(commentData) /\ send(inflight, 201)

\* POST /api/game/sessions
postGameSession(uid, body, now) ==
    LET sessionData == parse({"userId", "score", "sanityLeft", "choices"}, {},
                             Spread(body, [userId |-> uid]))
    IN  IF sessionData = ZodError
        THEN send(inflight, 400) /\ UNCHANGED <<storage, result>>
        ELSE createGameSession(sessionData, now) /\ send(inflight, 201)

\* POST /api/resources
postResource(uid, body) ==
    LET resourceData == parse({"title", "category", "markdown", "downloadUrl", "createdBy"},
                              {"title"}, Spread(body, [createdBy |-> uid]))
    IN  IF resourceData = ZodError
        THEN send(inflight, 400) /\ UNCHANGED <<storage, result>>
        ELSE createResource(resourceData) /\ send(inflight, 201)

\* bodies: a plain one, one that names another owner and an id, one that the
\* schema rejects
MemeBodies ==
    {[imageUrl |-> "a.png"],
     [imageUrl |-> "a.png", authorId |-> 1, id |-> 7, upvotes |-> 9],
     [caption |-> "no image", authorId |-> 1]}
CommentBodies ==
    {[memeId |-> 1, body |-> "ha"],
     [memeId |-> 1, body |-> "ha", authorId |-> 1, id |-> 7],
     [memeId |-> 1, authorId |-> 1]}
GameSessionBodies ==
    {[score |-> 0],
     [score |-> 0, userId |-> 1, id |-> 7]}
ResourceBodies ==
    {[title |-> "NDA", category |-> "contracts"],
     [title |-> "NDA", category |-> "contracts", createdBy |-> 1, id |-> 7, votes |-> 9],
     [category |-> "contracts", createdBy |-> 1]}

PostMeme ==
    /\ memeId <= 1 + MaxOwned
    /\ \E uid \in DOMAIN users, body \in MemeBodies : postMeme(uid, body, 0)
    /\ UNCHANGED client

PostComment ==
    /\ commentId <= 1 + MaxOwned
    /\ \E uid \in DOMAIN users, body \in CommentBodies : postComment(uid, body)
    /\ UNCHANGED client

PostGameSession ==
    /\ gameSessionId <= 1 + MaxOwned
    /\ \E uid \in DOMAIN users, body \in GameSessionBodies : postGameSession(uid, body, 0)
    /\ UNCHANGED client

PostResource ==
    /\ resourceId <= SeedCount + MaxOwned
    /\ \E uid \in DOMAIN users, body \in ResourceBodies : postResource(uid, body)
    /\ UNCHANGED client

NextOwn ==
    \/ PostMeme
    \/ PostComment
    \/ PostGameSession
    \/ PostResource

SpecOwn == InitHttp /\ [][NextOwn]_vars

\* C25: a meme, comment, game session or resource created through its route
\* carries the id of the requester in its owner field, whatever the body says.
C25_OwnerIsRequester ==
    [][\A uid \in DOMAIN users :
          /\ \A body \in MemeBodies :
                postMeme(uid, body, 0) =>
                    \A k \in DOMAIN memes' \ DOMAIN memes : memes'[k].authorId = uid
          /\ \A body \in CommentBodies :
                postComment(uid, body) =>
                    \A k \in DOMAIN comments' \ DOMAIN comments : comments'[k].authorId = uid
          /\ \A body \in GameSessionBodies :
                postGameSession(uid, body, 0) =>
                    \A k \in DOMAIN gameSessions' \ DOMAIN gameSessions :
                        gameSessions'[k].userId = uid
          /\ \A body \in ResourceBodies :
                postResource(uid, body) =>
                    \A k \in DOMAIN resources' \ DOMAIN resources :
                        resources'[k].createdBy = uid]_vars

\* user 2 has created one of each, and every one of them is user 2's
C25_Witness ==
    /\ resp = 201
    /\ \E k \in DOMAIN memes : "imageUrl" \in DOMAIN memes[k] /\ memes[k].authorId = 2
    /\ \E k \in DOMAIN comments : "body" \in DOMAIN comments[k] /\ comments[k].authorId = 2
    /\ \E k \in DOMAIN gameSessions : gameSessions[k].userId = 2
    /\ \E k \in DOMAIN resources : "createdBy" \in DOMAIN resources[k]
                                        /\ resources[k].createdBy = 2

(***************************************************************************)
(* The game session routes: GET /api/game/sessions/:userId and             *)
(* PATCH /api/game/sessions/:id, with POST /api/game/sessions.             *)
(***************************************************************************)
RECURSIVE filterByUser(_, _)
\* .filter(session => session.userId === userId)
filterByUser(array, uid) ==
    IF array = <<>> THEN <<>>
    ELSE (IF Head(array).userId = uid THEN <<Head(array)>> ELSE <<>>)
             \o filterByUser(Tail(array), uid)

getGameSessions(uid, limit) ==
    slice(sort(filterByUser(Values(gameSessions), uid), "new"), 0, limit)

updateGameSession(id, data) ==
    IF id \notin DOMAIN gameSessions
    THEN result' = NotFound /\ UNCHANGED storage
    ELSE /\ gameSessions' = MapSet(gameSessions, id, Spread(gameSessions[id], data))
         /\ result' = "ok"
         /\ UNCHANGED <<users, memes, comments, resources, userVotes, counters>>

\* GET /api/game/sessions/:userId; requested and limit are what parseInt reads
gameSessionsRoute(uid, requested, limit) ==
    IF requested = NaN \/ requested # Number(uid)
    THEN send(inflight, 403) /\ UNCHANGED <<storage, result, listing>>
    ELSE /\ listing' = [op |-> "getGameSessions", userId |-> uid,
                         out |-> getGameSessions(requested[1], orElse(limit, DefaultLimit))]
         /\ send(inflight, 200)
         /\ UNCHANGED <<storage, result>>

\* PATCH /api/game/sessions/:id without the check of ownership
patchGameSessionAnyOwner(uid, id, body) ==
    IF id = NaN \/ id[1] \notin DOMAIN gameSessions
    THEN send(inflight, 404) /\ UNCHANGED <<storage, result>>
    ELSE updateGameSession(id[1], body) /\ send(inflight, 200)

\* PATCH /api/game/sessions/:id; id is what parseInt reads
patchGameSession(uid, id, body) ==
    IF id = NaN \/ id[1] \notin DOMAIN gameSessions
    THEN send(inflight, 404) /\ UNCHANGED <<storage, result>>
    ELSE IF gameSessions[id[1]].userId # uid
    THEN send(inflight, 403) /\ UNCHANGED <<storage, result>>
    ELSE updateGameSession(id[1], body) /\ send(inflight, 200)

UserParams == {NaN, Number(1), Number(2)}
LimitParams == {NaN, Number(1)}
IdParams == {NaN, Number(1), Number(2), Number(3)}
PatchBodies == {[score |-> 1], [userId |-> 2], [id |-> 3]}

GetGameSessions ==
    /\ \E uid \in DOMAIN users, requested \in UserParams, limit \in LimitParams :
          gameSessionsRoute(uid, requested, limit)
    /\ UNCHANGED <<script, site>>

PatchGameSession ==
    /\ \E uid \in DOMAIN users, id \in IdParams, body \in PatchBodies :
          patchGameSession(uid, id, body)
    /\ UNCHANGED client

NextSessions ==
    \/ PostGameSession
    \/ GetGameSessions
    \/ PatchGameSession

SpecSessions == InitHttp /\ [][NextSessions]_vars

\* C26: GET /api/game/sessions/:userId answers 403 unless :userId is the
\* requester's id, and otherwise sends only sessions whose userId is the
\* requester's; PATCH /api/game/sessions/:id answers 404 for an unknown id and
\* 403 for a session whose stored userId is not the requester's; the stored
\* sessions are unchanged in the three error cases.
C26_OwnSessionsOnly ==
    [][\A uid \in DOMAIN users :
          /\ \A requested \in UserParams, limit \in LimitParams :
                gameSessionsRoute(uid, requested, limit) =>
                    IF requested = Number(uid)
                    THEN /\ resp' = 200
                         /\ \A i \in DOMAIN listing'.out : listing'.out[i].userId = uid
                    ELSE resp' = 403 /\ UNCHANGED <<gameSessions, listing>>
          /\ \A id \in IdParams, body \in PatchBodies :
                patchGameSession(uid, id, body) =>
                    IF id = NaN \/ id[1] \notin DOMAIN gameSessions
                    THEN resp' = 404 /\ UNCHANGED gameSessions
                    ELSE gameSessions[id[1]].userId # uid =>
                             resp' = 403 /\ UNCHANGED gameSessions]_vars

\* user 1 has listed sessions of their own and a request has since been
\* refused with 403
C26_Witness ==
    /\ resp = 403
    /\ listing # NoListing
    /\ listing.userId = 1
    /\ Len(listing.out) > 0
    /\ \E k \in DOMAIN gameSessions : gameSessions[k].userId = 1

\* C27: every stored entity has the id of its key, and no step changes the id
\* or the userId of a stored game session.
C27_SessionsKeepIdAndOwner ==
    /\ [](OwnId(users) /\ OwnId(memes) /\ OwnId(comments) /\ OwnId(gameSessions)
            /\ OwnId(resources))
    /\ [][\A k \in DOMAIN gameSessions :
              /\ gameSessions'[k].id = gameSessions[k].id
              /\ gameSessions'[k].userId = gameSessions[k].userId]_vars

MaxEmailLen == 2
MaxSubscribers == 4

Chars == {"a", "A", "@"}
Emails == UNION {[1..n -> Chars] : n \in 1..MaxEmailLen}

\* String.prototype.toLowerCase, character by character
lower(char) == CASE char = "A" -> "a" [] OTHER -> char
toLowerCase(string) == [i \in DOMAIN string |-> lower(string[i])]

\* addNewsletterSubscriber storing the email as it was typed
addNewsletterSubscriberAsTyped(email) ==
    /\ IF email \in newsletterSubscribers
       THEN result' = "false" /\ UNCHANGED newsletterSubscribers
       ELSE /\ newsletterSubscribers' = newsletterSubscribers \cup {email}
            /\ result' = "true"
    /\ UNCHANGED <<storage, sessions, tokens>>

addNewsletterSubscriber(email) ==
    LET normalizedEmail == toLowerCase(email)
    IN  /\ IF normalizedEmail \in newsletterSubscribers
           THEN result' = "false" /\ UNCHANGED newsletterSubscribers
           ELSE /\ newsletterSubscribers' = newsletterSubscribers \cup {normalizedEmail}
                /\ result' = "true"
        /\ UNCHANGED <<storage, sessions, tokens>>

AddNewsletterSubscriber ==
    /\ \E email \in Emails : addNewsletterSubscriber(email)
    /\ Cardinality(newsletterSubscribers') <= MaxSubscribers
    /\ UNCHANGED <<http, script, listing>>

NextNewsletter == AddNewsletterSubscriber

SpecNewsletter == Init /\ [][NextNewsletter]_vars

\* two emails are the same but for the case of their letters: their upper-case
\* forms are equal
upper(char) == CASE char = "a" -> "A" [] OTHER -> char
SameIgnoringCase(x, y) ==
    /\ Len(x) = Len(y)
    /\ \A i \in DOMAIN x : upper(x[i]) = upper(y[i])
Subscribed(email) == \E s \in newsletterSubscribers : SameIgnoringCase(s, email)

\* C30: the subscribers never hold two emails that differ in case only; a
\* call returns true exactly when no subscriber equals the email ignoring
\* case, and then adds one email, the lower-case form of the one passed;
\* otherwise it returns false and the set is unchanged; after a call the
\* email is subscribed, so the same call again returns false and changes
\* nothing.
C30_SubscribeOnce ==
    /\ [](\A x, y \in newsletterSubscribers : SameIgnoringCase(x, y) => x = y)
    /\ [][\A email \in Emails :
              addNewsletterSubscriber(email) =>
                  /\ result' = "true" <=> ~Subscribed(email)
                  /\ IF Subscribed(email)
                     THEN UNCHANGED newsletterSubscribers
                     ELSE \E added \in Emails :
                            /\ SameIgnoringCase(added, email)
                            /\ \A i \in DOMAIN added : added[i] # "A"
                            /\ newsletterSubscribers' = newsletterSubscribers \cup {added}
                            /\ added \notin newsletterSubscribers
                  /\ \E s \in newsletterSubscribers' : SameIgnoringCase(s, email)]_vars

\* a@ is subscribed with another email, and the last call was refused
C30_Witness ==
    /\ <<"a", "@">> \in newsletterSubscribers
    /\ Cardinality(newsletterSubscribers) >= 2
    /\ result = "false"
====
